---- MODULE Spec2Model ----
(***************************************************************************)
(* Model of configure.py, the ninja build configurator of the OBJ library. *)
(* The script is a straight-line program: it declares the library, leaves  *)
(* early when the project is a submodule, and otherwise declares the test  *)
(* artifacts, either one fat "test-all" or one artifact per test case.     *)
(* Every statement group of the script is one action; the answers of the   *)
(* generator's target and toolchain are inputs fixed for a run.            *)
(***************************************************************************)
EXTENDS Integers, Sequences, FiniteSets, TLC

VARIABLES
  pc,                 \* position in the script
  platform,           \* what generator.target stands for
  monolithic,         \* answer of toolchain.is_monolithic()
  subninja,           \* answer of generator.is_subninja()
  toolchain_configs,  \* toolchain.configs
  project,            \* project name handed to generator.Generator
  dependlibs,
  extrasources,
  includepaths,
  obj_sources,
  obj_lib,            \* handle returned by generator.lib (0: not bound yet)
  configs,
  linklibs,
  test_cases,
  test_resources,
  test_extrasources,
  test_idx,           \* position of the "for test in test_cases" loop
  artifacts,          \* declarations received by the generator, in call order
  exit_status,        \* "running", "success" or "error"
  pass,               \* number of the current run of the script
  plans               \* artifact sequences of the completed earlier runs

vars == <<pc, platform, monolithic, subninja, toolchain_configs, project,
          dependlibs, extrasources, includepaths, obj_sources, obj_lib,
          configs, linklibs, test_cases, test_resources, test_extrasources,
          test_idx, artifacts, exit_status, pass, plans>>

\* Number of runs of the script that are compared with each other.
MaxPasses == 2

\* Targets the script can be configured for; "unknown" is a target for which
\* is_macos, is_ios, is_android and is_tizen all answer false and which is
\* not one of the desktop targets either.
Platforms == {"windows", "linux", "macos", "ios", "android", "tizen", "unknown"}

DesktopPlatforms == {"windows", "linux"}

\* Configuration lists a toolchain can offer.
ConfigLists == { <<"debug", "release", "profile", "deploy">>, <<"debug", "release">> }

------------------------------------------------------------------------------
\* Pure helpers

\* os.path.join of two components
path_join(a, b) == a \o "/" \o b

\* [f(item) for item in s]
RECURSIVE MapJoin(_, _)
MapJoin(prefix, s) ==
  IF s = <<>> THEN <<>>
  ELSE <<path_join(prefix, Head(s))>> \o MapJoin(prefix, Tail(s))

\* [os.path.join(module, 'main.c') for module in test_cases]
RECURSIVE MainSources(_)
MainSources(cases) ==
  IF cases = <<>> THEN <<>>
  ELSE <<path_join(Head(cases), "main.c")>> \o MainSources(Tail(cases))

\* The test cases the script lists
manifest_test_cases == <<"obj">>

is_macos == platform = "macos"
is_ios == platform = "ios"
is_android == platform = "android"
is_tizen == platform = "tizen"

\* Truth value of the expression "generator.is_subninja" written without a
\* call: a bound method object, which Python treats as true.
is_subninja_method_truth == TRUE

\* generator.test_includepaths(): an opaque, pre-resolved list
test_includepaths == <<"test_includepaths">>

\* Variant: only the toolchain decides on the fat binary
UseMonolithic_toolchain_only == monolithic

\* Condition of the fat-binary branch
UseMonolithic == monolithic \/ is_ios \/ is_android \/ is_tizen

\* Condition that selects generator.app over generator.bin for test-all
IsAppTarget == is_macos \/ is_ios \/ is_android \/ is_tizen

ios_resources ==
  MapJoin(path_join("all", "ios"), <<"test-all.plist", "Images.xcassets", "test-all.xib">>)

ios_extrasources == << path_join(path_join("all", "ios"), "viewcontroller.m") >>

android_resources ==
  MapJoin(path_join("all", "android"),
    << "AndroidManifest.xml", path_join("layout", "main.xml"), path_join("values", "strings.xml"),
       path_join("drawable-ldpi", "icon.png"), path_join("drawable-mdpi", "icon.png"),
       path_join("drawable-hdpi", "icon.png"), path_join("drawable-xhdpi", "icon.png"),
       path_join("drawable-xxhdpi", "icon.png"), path_join("drawable-xxxhdpi", "icon.png") >>)

android_extrasources ==
  MapJoin("all/android/java/com/maniccoder/obj/test", << "TestActivity.java" >>)

tizen_resources ==
  MapJoin(path_join("all", "tizen"), << "tizen-manifest.xml", path_join("res", "tizenapp.png") >>)

macos_resources(test) ==
  MapJoin("osx", << "test-" \o test \o ".plist", "Images.xcassets", "test-" \o test \o ".xib" >>)

\* One declaration as the generator receives it.  A parameter the call does
\* not pass is the empty list.
Decl(kind, module, sources, binname, basepath, deps, libs, resources, incs) ==
  [ kind |-> kind, module |-> module, sources |-> sources, binname |-> binname,
    basepath |-> basepath, implicit_deps |-> deps, libs |-> libs,
    resources |-> resources, includepaths |-> incs ]

\* generator.lib(module, sources)
LibDecl(module, sources) ==
  Decl("lib", module, sources, module, "", <<>>, <<>>, <<>>, <<>>)

------------------------------------------------------------------------------
Init ==
  /\ pc = "start"
  /\ platform \in Platforms
  /\ monolithic \in BOOLEAN
  /\ subninja \in BOOLEAN
  /\ toolchain_configs \in ConfigLists
  /\ project = ""
  /\ dependlibs = <<>>
  /\ extrasources = <<>>
  /\ includepaths = <<>>
  /\ obj_sources = <<>>
  /\ obj_lib = 0
  /\ configs = <<>>
  /\ linklibs = <<>>
  /\ test_cases = <<>>
  /\ test_resources = <<>>
  /\ test_extrasources = <<>>
  /\ test_idx = 0
  /\ artifacts = <<>>
  /\ exit_status = "running"
  /\ pass = 1
  /\ plans = <<>>

\* Variant: the generator of the previous run is reused
Setup_reused_generator ==
  /\ pc = "start"
  /\ dependlibs' = <<"mesh", "vector", "foundation">>
  /\ project' = "obj"
  /\ UNCHANGED artifacts
  /\ extrasources' = <<>>
  /\ includepaths' = <<>>
  /\ obj_sources' = <<"obj.c", "mesh.c", "version.c">>
  /\ pc' = "lib"
  /\ UNCHANGED <<platform, monolithic, subninja, toolchain_configs, obj_lib,
                 configs, linklibs, test_cases, test_resources,
                 test_extrasources, test_idx, exit_status, pass, plans>>

\* Lines 12-22: the manifest and a fresh generator
Setup ==
  /\ pc = "start"
  /\ dependlibs' = <<"mesh", "vector", "foundation">>
  /\ project' = "obj"
  /\ artifacts' = <<>>
  /\ extrasources' = <<>>
  /\ includepaths' = <<>>
  /\ obj_sources' = <<"obj.c", "mesh.c", "version.c">>
  /\ pc' = "lib"
  /\ UNCHANGED <<platform, monolithic, subninja, toolchain_configs, obj_lib,
                 configs, linklibs, test_cases, test_resources,
                 test_extrasources, test_idx, exit_status, pass, plans>>

\* Line 24: obj_lib = generator.lib(...)
DeclareLib ==
  /\ pc = "lib"
  /\ artifacts' = Append(artifacts, LibDecl("obj", obj_sources \o extrasources))
  /\ obj_lib' = Len(artifacts) + 1
  /\ pc' = "configs"
  /\ UNCHANGED <<platform, monolithic, subninja, toolchain_configs, project,
                 dependlibs, extrasources, includepaths, obj_sources, configs,
                 linklibs, test_cases, test_resources, test_extrasources,
                 test_idx, exit_status, pass, plans>>

\* Lines 27-28
FilterConfigs ==
  /\ pc = "configs"
  /\ configs' = IF ~is_ios /\ ~is_android /\ ~is_tizen
                THEN SelectSeq(toolchain_configs, LAMBDA c : c \notin {"profile", "deploy"})
                ELSE configs
  /\ pc' = "subninja"
  /\ UNCHANGED <<platform, monolithic, subninja, toolchain_configs, project,
                 dependlibs, extrasources, includepaths, obj_sources, obj_lib,
                 linklibs, test_cases, test_resources, test_extrasources,
                 test_idx, artifacts, exit_status, pass, plans>>

\* Variant: the submodule check does not leave the script
CheckSubninja_no_exit ==
  /\ pc = "subninja"
  /\ pc' = "testsetup"
  /\ UNCHANGED exit_status
  /\ UNCHANGED <<platform, monolithic, subninja, toolchain_configs, project,
                 dependlibs, extrasources, includepaths, obj_sources, obj_lib,
                 configs, linklibs, test_cases, test_resources,
                 test_extrasources, test_idx, artifacts, pass, plans>>

\* Lines 31-32: no test cases for a submodule; sys.exit() without an argument
CheckSubninja ==
  /\ pc = "subninja"
  /\ IF subninja
     THEN pc' = "done" /\ exit_status' = "success"
     ELSE pc' = "testsetup" /\ UNCHANGED exit_status
  /\ UNCHANGED <<platform, monolithic, subninja, toolchain_configs, project,
                 dependlibs, extrasources, includepaths, obj_sources, obj_lib,
                 configs, linklibs, test_cases, test_resources,
                 test_extrasources, test_idx, artifacts, pass, plans>>

\* Variant: the dependency libraries are linked ahead of 'test' and 'obj'
TestSetup_deps_first ==
  /\ pc = "testsetup"
  /\ includepaths' = test_includepaths
  /\ linklibs' = dependlibs \o <<"test", "obj">>
  /\ test_cases' = manifest_test_cases
  /\ pc' = "branch"
  /\ UNCHANGED <<platform, monolithic, subninja, toolchain_configs, project,
                 dependlibs, extrasources, obj_sources, obj_lib, configs,
                 test_resources, test_extrasources, test_idx, artifacts,
                 exit_status, pass, plans>>

\* Variant: linklibs is built by extending the list dependlibs in place
TestSetup_extend_in_place ==
  /\ pc = "testsetup"
  /\ includepaths' = test_includepaths
  /\ linklibs' = <<"test", "obj">> \o dependlibs
  /\ dependlibs' = <<"test", "obj">> \o dependlibs
  /\ test_cases' = manifest_test_cases
  /\ pc' = "branch"
  /\ UNCHANGED <<platform, monolithic, subninja, toolchain_configs, project,
                 extrasources, obj_sources, obj_lib, configs,
                 test_resources, test_extrasources, test_idx, artifacts,
                 exit_status, pass, plans>>

\* Lines 34-38
TestSetup ==
  /\ pc = "testsetup"
  /\ includepaths' = test_includepaths
  /\ linklibs' = <<"test", "obj">> \o dependlibs
  /\ test_cases' = manifest_test_cases
  /\ pc' = "branch"
  /\ UNCHANGED <<platform, monolithic, subninja, toolchain_configs, project,
                 dependlibs, extrasources, obj_sources, obj_lib, configs,
                 test_resources, test_extrasources, test_idx, artifacts,
                 exit_status, pass, plans>>

\* Line 39 / line 64
Branch ==
  /\ pc = "branch"
  /\ pc' = IF UseMonolithic THEN "mono_init" ELSE "per_all"
  /\ UNCHANGED <<platform, monolithic, subninja, toolchain_configs, project,
                 dependlibs, extrasources, includepaths, obj_sources, obj_lib,
                 configs, linklibs, test_cases, test_resources,
                 test_extrasources, test_idx, artifacts, exit_status, pass, plans>>

\* Variant: the 'all' case is put in front of the listed test cases
MonoInit_all_first ==
  /\ pc = "mono_init"
  /\ test_resources' = <<>>
  /\ test_extrasources' = <<>>
  /\ test_cases' = <<"all">> \o test_cases
  /\ pc' = "mono_platform"
  /\ UNCHANGED <<platform, monolithic, subninja, toolchain_configs, project,
                 dependlibs, extrasources, includepaths, obj_sources, obj_lib,
                 configs, linklibs, test_idx, artifacts, exit_status, pass, plans>>

\* Lines 41-43; "+=" extends the list test_cases in place
MonoInit ==
  /\ pc = "mono_init"
  /\ test_resources' = <<>>
  /\ test_extrasources' = <<>>
  /\ test_cases' = test_cases \o <<"all">>
  /\ pc' = "mono_platform"
  /\ UNCHANGED <<platform, monolithic, subninja, toolchain_configs, project,
                 dependlibs, extrasources, includepaths, obj_sources, obj_lib,
                 configs, linklibs, test_idx, artifacts, exit_status, pass, plans>>

\* Lines 44-59
MonoPlatform ==
  /\ pc = "mono_platform"
  /\ test_resources' =
       IF is_ios THEN ios_resources
       ELSE IF is_android THEN android_resources
       ELSE IF is_tizen THEN tizen_resources
       ELSE test_resources
  /\ test_extrasources' =
       IF is_ios THEN ios_extrasources
       ELSE IF is_android THEN android_extrasources
       ELSE test_extrasources
  /\ pc' = "mono_declare"
  /\ UNCHANGED <<platform, monolithic, subninja, toolchain_configs, project,
                 dependlibs, extrasources, includepaths, obj_sources, obj_lib,
                 configs, linklibs, test_cases, test_idx, artifacts,
                 exit_status, pass, plans>>

\* Variant: test-all is declared without its implicit dependency
MonoDeclare_no_deps ==
  /\ pc = "mono_declare"
  /\ artifacts' = Append(artifacts,
       Decl(IF IsAppTarget THEN "app" ELSE "bin", "",
            MainSources(test_cases) \o test_extrasources, "test-all", "test",
            <<>>, linklibs, test_resources, includepaths))
  /\ pc' = "done"
  /\ exit_status' = "success"
  /\ UNCHANGED <<platform, monolithic, subninja, toolchain_configs, project,
                 dependlibs, extrasources, includepaths, obj_sources, obj_lib,
                 configs, linklibs, test_cases, test_resources,
                 test_extrasources, test_idx, pass, plans>>

\* Variant: a target that is neither a bundle target nor a desktop target
\* is refused instead of getting a plain binary
MonoDeclare_reject_unknown ==
  /\ pc = "mono_declare"
  /\ IF IsAppTarget \/ platform \in DesktopPlatforms
     THEN /\ artifacts' = Append(artifacts,
               Decl(IF IsAppTarget THEN "app" ELSE "bin", "",
                    MainSources(test_cases) \o test_extrasources, "test-all", "test",
                    <<obj_lib>>, linklibs, test_resources, includepaths))
          /\ exit_status' = "success"
     ELSE /\ UNCHANGED artifacts
          /\ exit_status' = "error"
  /\ pc' = "done"
  /\ UNCHANGED <<platform, monolithic, subninja, toolchain_configs, project,
                 dependlibs, extrasources, includepaths, obj_sources, obj_lib,
                 configs, linklibs, test_cases, test_resources,
                 test_extrasources, test_idx, pass, plans>>

\* Lines 60-63; the script ends after the call
MonoDeclare ==
  /\ pc = "mono_declare"
  /\ artifacts' = Append(artifacts,
       Decl(IF IsAppTarget THEN "app" ELSE "bin", "",
            MainSources(test_cases) \o test_extrasources, "test-all", "test",
            <<obj_lib>>, linklibs, test_resources, includepaths))
  /\ pc' = "done"
  /\ exit_status' = "success"
  /\ UNCHANGED <<platform, monolithic, subninja, toolchain_configs, project,
                 dependlibs, extrasources, includepaths, obj_sources, obj_lib,
                 configs, linklibs, test_cases, test_resources,
                 test_extrasources, test_idx, pass, plans>>

\* Lines 66-67: "if not generator.is_subninja:" tests the method object
PerAll ==
  /\ pc = "per_all"
  /\ artifacts' =
       IF ~is_subninja_method_truth
       THEN Append(artifacts,
              Decl("bin", "all", <<"main.c">>, "test-all", "test", <<obj_lib>>,
                   <<"obj">> \o dependlibs, <<>>, includepaths))
       ELSE artifacts
  /\ test_idx' = 1
  /\ pc' = "per_test"
  /\ UNCHANGED <<platform, monolithic, subninja, toolchain_configs, project,
                 dependlibs, extrasources, includepaths, obj_sources, obj_lib,
                 configs, linklibs, test_cases, test_resources,
                 test_extrasources, exit_status, pass, plans>>

\* Lines 68-73: one iteration of the loop over test_cases
PerTest ==
  /\ pc = "per_test"
  /\ test_idx <= Len(test_cases)
  /\ LET test == test_cases[test_idx] IN
       IF is_macos
       THEN /\ test_resources' = macos_resources(test)
            /\ artifacts' = Append(artifacts,
                 Decl("app", test, <<"main.c">>, "test-" \o test, "test",
                      <<obj_lib>>, linklibs, macos_resources(test), includepaths))
       ELSE /\ UNCHANGED test_resources
            /\ artifacts' = Append(artifacts,
                 Decl("bin", test, <<"main.c">>, "test-" \o test, "test",
                      <<obj_lib>>, linklibs, <<>>, includepaths))
  /\ test_idx' = test_idx + 1
  /\ UNCHANGED <<pc, platform, monolithic, subninja, toolchain_configs, project,
                 dependlibs, extrasources, includepaths, obj_sources, obj_lib,
                 configs, linklibs, test_cases, test_extrasources,
                 exit_status, pass, plans>>

\* The loop is exhausted and the script ends
LoopEnd ==
  /\ pc = "per_test"
  /\ test_idx > Len(test_cases)
  /\ pc' = "done"
  /\ exit_status' = "success"
  /\ UNCHANGED <<platform, monolithic, subninja, toolchain_configs, project,
                 dependlibs, extrasources, includepaths, obj_sources, obj_lib,
                 configs, linklibs, test_cases, test_resources,
                 test_extrasources, test_idx, artifacts, pass, plans>>

\* The script is run again for the same target and toolchain.  Nothing is
\* cleared here: whatever a run starts from is what its own statements set.
Rerun ==
  /\ pc = "done"
  /\ pass < MaxPasses
  /\ plans' = Append(plans, artifacts)
  /\ pass' = pass + 1
  /\ pc' = "start"
  /\ exit_status' = "running"
  /\ UNCHANGED <<platform, monolithic, subninja, toolchain_configs, project,
                 dependlibs, extrasources, includepaths, obj_sources, obj_lib,
                 configs, linklibs, test_cases, test_resources,
                 test_extrasources, test_idx, artifacts>>

Next ==
  \/ Setup
  \/ DeclareLib
  \/ FilterConfigs
  \/ CheckSubninja
  \/ TestSetup
  \/ Branch
  \/ MonoInit
  \/ MonoPlatform
  \/ MonoDeclare
  \/ PerAll
  \/ PerTest
  \/ LoopEnd
  \/ Rerun

Spec == Init /\ [][Next]_vars

------------------------------------------------------------------------------
\* Vocabulary of the properties

ExpectedLib == LibDecl("obj", <<"obj.c", "mesh.c", "version.c">>)

ExpectedLinkLibs == <<"test", "obj", "mesh", "vector", "foundation">>

Libs == { i \in DOMAIN artifacts : artifacts[i].kind = "lib" }

NonLibs == { i \in DOMAIN artifacts : artifacts[i].kind # "lib" }

\* Extra sources the fat binary gets on the current platform
PlatformExtraSources ==
  IF is_ios THEN ios_extrasources
  ELSE IF is_android THEN android_extrasources
  ELSE <<>>

\* Resource table: what an artifact named binname carries on the platform
ResourceTable(binname) ==
  IF is_ios THEN ios_resources
  ELSE IF is_android THEN android_resources
  ELSE IF is_tizen THEN tizen_resources
  ELSE IF is_macos THEN MapJoin("osx", << binname \o ".plist", "Images.xcassets", binname \o ".xib" >>)
  ELSE <<>>

------------------------------------------------------------------------------
\* C1: for every platform and linkage mode, a submodule run never declares
\* anything but the library, its finished plan is exactly the 'obj' library,
\* and it ends as a normal termination, never as an error.
SubmoduleOnlyLibrary ==
  subninja =>
    /\ NonLibs = {}
    /\ exit_status # "error"
    /\ pc = "done" => (artifacts = <<ExpectedLib>> /\ exit_status = "success")

SubmoduleOnlyLibraryWitness ==
  /\ pc = "done" /\ subninja /\ platform = "ios" /\ monolithic
  /\ artifacts = <<ExpectedLib>>

\* C2: every declared bin or app links 'test', 'obj', then the dependency
\* libraries 'mesh', 'vector', 'foundation', in exactly that order.
LinkOrder ==
  \A i \in NonLibs : artifacts[i].libs = ExpectedLinkLibs

LinkOrderWitness ==
  /\ pc = "done"
  /\ \E i \in NonLibs : artifacts[i].kind = "app" /\ artifacts[i].binname = "test-all"

\* C3: at every point the declarations are in dependency order: at most one
\* library is declared (exactly one when the run is over), and every bin or
\* app names among its implicit dependencies a library declared before it.
DependencyOrder ==
  /\ Cardinality(Libs) <= 1
  /\ pc = "done" => Cardinality(Libs) = 1
  /\ \A i \in NonLibs :
       \E k \in DOMAIN artifacts[i].implicit_deps :
         LET d == artifacts[i].implicit_deps[k] IN
           d \in 1..(i - 1) /\ artifacts[d].kind = "lib"

DependencyOrderWitness ==
  /\ pc = "done" /\ ~subninja /\ monolithic /\ platform = "linux"
  /\ Len(artifacts) = 2 /\ artifacts[2].implicit_deps = <<1>>

\* C4: not a submodule and the platform is iOS, Android or Tizen: whatever
\* the toolchain says, the plan has exactly one non-library artifact, the app
\* 'test-all', and 'test-obj' is never declared.
BundlePlatformForcing ==
  (~subninja /\ (is_ios \/ is_android \/ is_tizen)) =>
    /\ \A i \in NonLibs : artifacts[i].binname # "test-obj"
    /\ pc = "done" =>
         /\ Cardinality(NonLibs) = 1
         /\ \A i \in NonLibs : artifacts[i].kind = "app" /\ artifacts[i].binname = "test-all"

BundlePlatformForcingWitness ==
  /\ pc = "done" /\ ~subninja /\ ~monolithic /\ is_android
  /\ Len(artifacts) = 2 /\ artifacts[2].kind = "app"

\* C5 as stated: under monolithic linkage the one non-library artifact is
\* built from the main.c of each listed test case, then the platform's extra
\* sources, and nothing else.
MonolithicSourcesAsStated ==
  (pc = "done" /\ ~subninja /\ UseMonolithic) =>
    /\ Cardinality(NonLibs) = 1
    /\ \A i \in NonLibs :
         artifacts[i].sources = MainSources(manifest_test_cases) \o PlatformExtraSources

\* C5 amended: under monolithic linkage the one non-library artifact is built
\* from the main.c of each listed test case, in order, then all/main.c of the
\* reserved 'all' case, then the platform's extra sources.
MonolithicSources ==
  (pc = "done" /\ ~subninja /\ UseMonolithic) =>
    /\ Cardinality(NonLibs) = 1
    /\ \A i \in NonLibs :
         artifacts[i].sources =
           MainSources(manifest_test_cases) \o <<"all/main.c">> \o PlatformExtraSources

MonolithicSourcesWitness ==
  /\ pc = "done" /\ ~subninja /\ is_ios
  /\ Len(artifacts) = 2
  /\ artifacts[2].sources = <<"obj/main.c", "all/main.c", "all/ios/viewcontroller.m">>

\* C6: not a submodule, desktop platform, toolchain not monolithic: besides
\* the library the plan has exactly the plain binaries 'test-obj' (obj's
\* main.c) and 'test-all' (the reserved 'all' case), none with resources.
PerArtifactSplit ==
  (pc = "done" /\ ~subninja /\ ~monolithic /\ platform \in DesktopPlatforms) =>
    /\ Cardinality(NonLibs) = 2
    /\ \A i \in NonLibs : artifacts[i].kind = "bin" /\ artifacts[i].resources = <<>>
    /\ \E i \in NonLibs :
         /\ artifacts[i].binname = "test-obj"
         /\ artifacts[i].module = "obj"
         /\ artifacts[i].sources = <<"main.c">>
    /\ \E i \in NonLibs :
         /\ artifacts[i].binname = "test-all"
         /\ artifacts[i].module = "all"

\* C7: not a submodule: on macOS, iOS, Android and Tizen every non-library
\* artifact is an app carrying the platform's non-empty resource set; on any
\* other platform it is a plain binary without resources.
BundleResources ==
  ~subninja =>
    \A i \in NonLibs :
      IF IsAppTarget
      THEN /\ artifacts[i].kind = "app"
           /\ artifacts[i].resources = ResourceTable(artifacts[i].binname)
           /\ artifacts[i].resources # <<>>
      ELSE /\ artifacts[i].kind = "bin"
           /\ artifacts[i].resources = <<>>

\* C8 as stated: on a platform that is none of the recognised kinds the run
\* ends in an error and no test artifact is declared.
UnknownPlatformRejected ==
  (~subninja /\ platform = "unknown") =>
    /\ NonLibs = {}
    /\ pc = "done" => exit_status = "error"

\* C8 amended: on a platform that is none of the recognised kinds the run
\* ends normally and the plan has, besides the library, one plain binary
\* without resources: 'test-all' for a monolithic toolchain, else 'test-obj'.
UnknownPlatformFallsThrough ==
  (~subninja /\ platform = "unknown") =>
    /\ exit_status # "error"
    /\ pc = "done" =>
         /\ exit_status = "success"
         /\ Cardinality(NonLibs) = 1
         /\ \A i \in NonLibs :
              /\ artifacts[i].kind = "bin"
              /\ artifacts[i].resources = <<>>
              /\ artifacts[i].binname = IF monolithic THEN "test-all" ELSE "test-obj"

UnknownPlatformFallsThroughWitness ==
  /\ pc = "done" /\ ~subninja /\ platform = "unknown" /\ monolithic
  /\ Len(artifacts) = 2 /\ artifacts[2].kind = "bin"

\* C9: a run that starts from the same target, toolchain flag and submodule
\* flag as an earlier run ends with the same artifact sequence.
Determinism ==
  pc = "done" => \A k \in DOMAIN plans : plans[k] = artifacts

DeterminismWitness ==
  /\ pc = "done" /\ pass = 2 /\ Len(plans) = 1 /\ ~subninja
  /\ Len(artifacts) = 2 /\ plans[1] = artifacts

\* C10 as stated: at the end of a run the module name, the library sources,
\* the dependency libraries and the test-case list are as they were set.
ManifestUnchangedAsStated ==
  pc = "done" =>
    /\ project = "obj"
    /\ obj_sources = <<"obj.c", "mesh.c", "version.c">>
    /\ dependlibs = <<"mesh", "vector", "foundation">>
    /\ ~subninja => test_cases = manifest_test_cases

\* C10 amended: once set, the module name, the library sources and the
\* dependency libraries keep their values; the test-case list ends as it was
\* set when one artifact per test case is built, and with the reserved case
\* 'all' appended once under monolithic linkage.
ManifestFrame ==
  /\ pc # "start" =>
       /\ project = "obj"
       /\ obj_sources = <<"obj.c", "mesh.c", "version.c">>
       /\ dependlibs = <<"mesh", "vector", "foundation">>
  /\ (pc = "done" /\ ~subninja) =>
       test_cases = IF UseMonolithic
                    THEN manifest_test_cases \o <<"all">>
                    ELSE manifest_test_cases

ManifestFrameWitness ==
  /\ pc = "done" /\ ~subninja /\ monolithic /\ platform = "windows"
  /\ test_cases = <<"obj", "all">>
  /\ dependlibs = <<"mesh", "vector", "foundation">>

====
